---------------------------- MODULE Spec2Model ----------------------------
(***************************************************************************)
(* A model of move_sidebar.py: the DOM transformation                      *)
(* move_sidebar_after_content, the read-only preview pass of               *)
(* process_single_file, and the batch loop of main.                        *)
(*                                                                         *)
(* Strings whose prefix matters (ids, class tokens) are sequences of       *)
(* segments: "jetpack-foo" is <<"jetpack-", "foo">>, so that startswith    *)
(* is a prefix test on the sequence.  An absent attribute is <<>> (id,     *)
(* class) or "" (type).  A document is an ordered tree of element nodes    *)
(* under node 0, the BeautifulSoup object; text nodes are left out.        *)
(***************************************************************************)
EXTENDS Integers, Sequences, FiniteSets, TLC

\* ------------------------------------------------------------- bounds
\* elements in a document that holds a content and a sidebar, over CoreLabels
MaxNodes == 4
\* the same, over AllLabels
RareMaxNodes == 3
\* elements in a document of any kind, over AllLabels
SmallNodes == 2
\* elements in a file of the batch, over BatchLabels
BatchMaxNodes == 2
\* files in the batch
NFiles == 2

\* ------------------------------------------------------------- labels
Root == 0
NoParent == -1

Elem(nm, i, ty, cl) == [name |-> nm, id |-> i, type |-> ty, class |-> cl]

ContentDiv   == Elem("div", <<"content">>, "", <<>>)
SidebarDiv   == Elem("div", <<"sidebar">>, "", <<>>)
PlainDiv     == Elem("div", <<>>, "", << <<"entry">> >>)
ShareDiv     == Elem("div", <<>>, "", << <<"sd-block">>, <<"sharedaddy", "-enabled">> >>)
ShareFirst   == Elem("div", <<>>, "", << <<"sharedaddy">> >>)
JetpackJs    == Elem("script", <<"jetpack-", "stats">>, "", <<>>)
SharingJs    == Elem("script", <<"sharing-js", "-js">>, "", <<>>)
CommentJs    == Elem("script", <<"comment-reply", "-js">>, "", <<>>)
SpecRules    == Elem("script", <<>>, "speculationrules", <<>>)
MultiJs      == Elem("script", <<"jetpack-", "spec">>, "speculationrules", <<>>)
OtherJs      == Elem("script", <<"jetpack">>, "text/javascript", <<>>)
LikesIframe  == Elem("iframe", <<"likes-master">>, "", <<>>)
OtherIframe  == Elem("iframe", <<"video">>, "", <<>>)
SearchAside  == Elem("aside", <<"search-2">>, "", <<>>)
MetaAside    == Elem("aside", <<"meta-2">>, "", <<>>)
TextAside    == Elem("aside", <<"text-1">>, "", <<>>)
NoIdAside    == Elem("aside", <<>>, "", <<>>)
NoLabel      == Elem("", <<>>, "", <<>>)

CoreLabels == {SidebarDiv, ShareDiv, LikesIframe, SearchAside, TextAside}
AllLabels == {ContentDiv, SidebarDiv, PlainDiv, ShareDiv, ShareFirst,
              JetpackJs, SharingJs, CommentJs, SpecRules, MultiJs, OtherJs,
              LikesIframe, OtherIframe, SearchAside, MetaAside, TextAside, NoIdAside}
BatchLabels == {ContentDiv, SidebarDiv, ShareDiv}

\* lxml keeps the body of a script (and of an iframe) as text
IsLeafLabel(l) == l.name \in {"script", "iframe"}

\* ------------------------------------------------------------- strings
StartsWith(s, p) == Len(p) <= Len(s) /\ SubSeq(s, 1, Len(p)) = p

RECURSIVE Join(_)
Join(toks) ==
    IF toks = <<>> THEN <<>>
    ELSE IF Len(toks) = 1 THEN toks[1]
    ELSE toks[1] \o <<" ">> \o Join(Tail(toks))

\* ------------------------------------------------------------- trees
RECURSIVE Preorder(_, _)
RECURSIVE PreorderAll(_, _)
Preorder(s, x) == <<x>> \o PreorderAll(s, s.contents[x])
PreorderAll(s, xs) ==
    IF xs = <<>> THEN <<>>
    ELSE Preorder(s, xs[1]) \o PreorderAll(s, Tail(xs))

Descendants(s, x) == Tail(Preorder(s, x))

Range(q) == {q[i] : i \in 1..Len(q)}

IndexOf(q, x) == CHOOSE i \in 1..Len(q) : q[i] = x

Remove(q, x) == SelectSeq(q, LAMBDA y : y # x)

InsertAt(q, pos, x) == SubSeq(q, 1, pos - 1) \o <<x>> \o SubSeq(q, pos, Len(q))

\* ------------------------------------------------------------- text
OpenTag(l) == [t |-> "open", l |-> l]
CloseTag == [t |-> "close", l |-> NoLabel]
ShellText == [t |-> "text", l |-> NoLabel]

RECURSIVE Decode(_, _)
RECURSIVE DecodeAll(_, _)
Decode(s, x) ==
    IF x \in s.decomposed THEN <<ShellText>>
    ELSE <<OpenTag(s.attrs[x])>> \o DecodeAll(s, s.contents[x]) \o <<CloseTag>>
DecodeAll(s, xs) ==
    IF xs = <<>> THEN <<>>
    ELSE Decode(s, xs[1]) \o DecodeAll(s, Tail(xs))

Serialize(s) == DecodeAll(s, s.contents[Root])

EmptySoup == [n |-> 0, parent |-> <<>>, contents |-> [x \in {Root} |-> <<>>],
              attrs |-> <<>>, decomposed |-> {}]

AddChild(s, p, l) ==
    LET k == s.n + 1 IN
    [n |-> k,
     parent |-> Append(s.parent, p),
     contents |-> [x \in 0..k |-> IF x = k THEN <<>>
                                  ELSE IF x = p THEN Append(s.contents[x], k)
                                  ELSE s.contents[x]],
     attrs |-> Append(s.attrs, l),
     decomposed |-> {}]

RECURSIVE Feed(_, _, _)
Feed(toks, s, stack) ==
    IF toks = <<>> THEN s
    ELSE LET tk == toks[1] IN
         IF tk.t = "open"
         THEN LET s2 == AddChild(s, stack[Len(stack)], tk.l) IN
              Feed(Tail(toks), s2, Append(stack, s2.n))
         ELSE IF tk.t = "close" /\ Len(stack) > 1
         THEN Feed(Tail(toks), s, SubSeq(stack, 1, Len(stack) - 1))
         ELSE Feed(Tail(toks), s, stack)

Parse(text) == Feed(text, EmptySoup, <<Root>>)

\* ------------------------------------------------------------- inputs
\* A shape is the parent of each node, nodes numbered in document order: the
\* parent of node i is the node before it or one of that node's ancestors.
RECURSIVE OpenPath(_, _)
OpenPath(p, x) == IF x = Root THEN {Root} ELSE {x} \cup OpenPath(p, p[x])

RECURSIVE Shapes(_)
Shapes(n) ==
    IF n = 0 THEN {<<>>}
    ELSE UNION {{Append(p, a) : a \in OpenPath(p, n - 1)} : p \in Shapes(n - 1)}

WellFormed(shape, attrs) ==
    \A i \in 1..Len(shape) :
        IF shape[i] = Root THEN TRUE ELSE ~IsLeafLabel(attrs[shape[i]])

RECURSIVE Kids(_, _, _)
Kids(shape, x, i) ==
    IF i > Len(shape) THEN <<>>
    ELSE (IF shape[i] = x THEN <<i>> ELSE <<>>) \o Kids(shape, x, i + 1)

SoupOf(shape, attrs) ==
    [n |-> Len(shape),
     parent |-> shape,
     contents |-> [x \in 0..Len(shape) |-> Kids(shape, x, 1)],
     attrs |-> attrs,
     decomposed |-> {}]

\* the documents of at most m elements over the given labels
IsDocument(text, m, labels) ==
    \E n \in 1..m : \E shape \in Shapes(n) : \E attrs \in [1..n -> labels] :
        /\ WellFormed(shape, attrs)
        /\ text = Serialize(SoupOf(shape, attrs))

\* ------------------------------------------------------------- bs4
None == -1

\* PageElement.decompose: extract x, then clear x and everything under it.
\* On an element already cleared it finds no parent and nothing under it.
Decompose(s, x) ==
    IF x \in s.decomposed THEN s
    ELSE LET sub == Range(Preorder(s, x))
             p == s.parent[x]
         IN [s EXCEPT
                !.parent = [i \in 1..s.n |-> IF i \in sub THEN NoParent ELSE s.parent[i]],
                !.contents = [i \in 0..s.n |->
                                 IF i \in sub THEN <<>>
                                 ELSE IF i = p THEN Remove(s.contents[i], x)
                                 ELSE s.contents[i]],
                !.attrs = [i \in 1..s.n |-> IF i \in sub THEN NoLabel ELSE s.attrs[i]],
                !.decomposed = @ \cup sub]

RECURSIVE DecomposeEach(_, _)
DecomposeEach(s, xs) ==
    IF xs = <<>> THEN s ELSE DecomposeEach(Decompose(s, xs[1]), Tail(xs))

\* PageElement.extract: take x out of its parent's contents
Extract(s, x) ==
    IF s.parent[x] = NoParent THEN s
    ELSE [s EXCEPT !.parent[x] = NoParent,
                   !.contents[s.parent[x]] = Remove(@, x)]

\* ------------------------------------------------------------- the rules
JetpackScript(l) == l.name = "script" /\ l.id # <<>> /\ StartsWith(l.id, <<"jetpack-">>)

SharingScript(l) == l.name = "script" /\ l.id # <<>> /\ StartsWith(l.id, <<"sharing-js">>)

CommentScript(l) == l.name = "script" /\ l.id # <<>> /\ StartsWith(l.id, <<"comment-reply">>)

SpeculationScript(l) == l.name = "script" /\ l.type = "speculationrules"

LikesMaster(l) == l.name = "iframe" /\ l.id = <<"likes-master">>

\* How bs4 hands a multi-valued attribute to a filter function: each token as
\* a string, then the tokens joined by spaces as a string; never the list.
Str(v) == [kind |-> "str", v |-> v]

\* lambda x: x and any(cls.startswith('sharedaddy') for cls in x if isinstance(x, list))
ListFilter(x) ==
    /\ x.v # <<>>
    /\ x.kind = "list"
    /\ \E i \in 1..Len(x.v) : StartsWith(x.v[i], <<"sharedaddy">>)

\* lambda x: isinstance(x, str) and x.startswith('sharedaddy')
StrFilter(x) == x.kind = "str" /\ StartsWith(x.v, <<"sharedaddy">>)

\* the filter function of line 97 or of line 100
Filter(f, x) == IF f = "list" THEN ListFilter(x) ELSE StrFilter(x)

MatchesClass(cls, f) ==
    /\ cls # <<>>
    /\ \/ \E i \in 1..Len(cls) : Filter(f, Str(cls[i]))
       \/ Filter(f, Str(Join(cls)))

SharedaddyByList(l) == l.name = "div" /\ MatchesClass(l.class, "list")

SharedaddyByStr(l) == l.name = "div" /\ MatchesClass(l.class, "str")

\* find(id='content'), find(id='sidebar')
WithId(l, v) == l.id = <<v>>

AsideWithId(l) == l.name = "aside" /\ l.id # <<>>

unwanted_ids == {<<"search-2">>, <<"meta-2">>}

\* whether an element of label l matches the arguments of a find or find_all
Matches(rule, l) ==
    CASE rule = "content" -> WithId(l, "content")
      [] rule = "sidebar" -> WithId(l, "sidebar")
      [] rule = "jetpack" -> JetpackScript(l)
      [] rule = "sharing" -> SharingScript(l)
      [] rule = "comment" -> CommentScript(l)
      [] rule = "speculation" -> SpeculationScript(l)
      [] rule = "likes" -> LikesMaster(l)
      [] rule = "sharedaddy list" -> SharedaddyByList(l)
      [] rule = "sharedaddy str" -> SharedaddyByStr(l)
      [] rule = "aside" -> AsideWithId(l)

\* Tag.find_all under node x: the matching elements in document order
FindAll(s, x, rule) ==
    SelectSeq(Descendants(s, x), LAMBDA y : Matches(rule, s.attrs[y]))

\* Tag.find: the first match, or None
Find(s, x, rule) ==
    LET found == FindAll(s, x, rule) IN
    IF found = <<>> THEN None ELSE found[1]

\* lines 68-84 and 164-172: the four lists, one after the other
UnwantedScripts(s) ==
    FindAll(s, Root, "jetpack") \o FindAll(s, Root, "sharing")
        \o FindAll(s, Root, "comment") \o FindAll(s, Root, "speculation")

\* a variant that trusts the first search alone, for testing the properties
SharedaddyDivsFirstOnly(s) == FindAll(s, Root, "sharedaddy list")

\* lines 97-100 and 180-182
SharedaddyDivs(s) ==
    LET first == FindAll(s, Root, "sharedaddy list") IN
    IF first = <<>> THEN FindAll(s, Root, "sharedaddy str") ELSE first

\* ------------------------------------------------------------- exceptions
NoError == [type |-> "", msg |-> ""]
MissingContent == [type |-> "ValueError", msg |-> "Section with id 'content' not found in HTML"]
MissingSidebar == [type |-> "ValueError", msg |-> "Section with id 'sidebar' not found in HTML"]
NoParentError == [type |-> "ValueError", msg |-> "Element has no parent, so 'after' has no meaning."]
IntoItselfError == [type |-> "ValueError", msg |-> "Cannot insert a tag into itself."]
ClearedAttrsError == [type |-> "AttributeError", msg |-> "'NoneType' object has no attribute 'get'"]
ClearedNameError == [type |-> "TypeError", msg |-> "can only concatenate str (not \"NoneType\") to str"]
\* not an exception: the call never returns
Hang == [type |-> "hang", msg |-> ""]

\* What the installed bs4 does where its releases differ or where the tree is
\* no longer a tree: whether a cleared element still serializes, and whether
\* insert() ends when the new child is an ancestor of its new parent.
Libs == [shell_renders : BOOLEAN, cycle_ends : BOOLEAN]

\* ------------------------------------------------------------- move_sidebar_after_content
\* lines 55-65
FindSections(text) ==
    LET soup == Parse(text)
        content_section == Find(soup, Root, "content")
        sidebar_section == Find(soup, Root, "sidebar")
    IN [soup |-> soup,
        content_section |-> content_section,
        sidebar_section |-> sidebar_section,
        unwanted_scripts |-> <<>>, scripts_removed |-> 0,
        likes_iframe |-> None, iframe_removed |-> 0,
        sharedaddy_divs |-> <<>>, divs_removed |-> 0,
        aside_tags |-> <<>>, removed_asides |-> {},
        duplicates_removed |-> 0, unwanted_removed |-> 0,
        error |-> IF content_section = None THEN MissingContent
                  ELSE IF sidebar_section = None THEN MissingSidebar
                  ELSE NoError,
        output |-> <<>>]

\* lines 67-88
RemoveScripts(m) ==
    LET unwanted_scripts == UnwantedScripts(m.soup) IN
    [m EXCEPT !.unwanted_scripts = unwanted_scripts,
              !.scripts_removed = Len(unwanted_scripts),
              !.soup = DecomposeEach(m.soup, unwanted_scripts)]

\* a variant that removes every likes-master iframe, for testing the properties
RemoveEveryIframe(m) ==
    LET found == FindAll(m.soup, Root, "likes") IN
    [m EXCEPT !.likes_iframe = Find(m.soup, Root, "likes"),
              !.iframe_removed = IF found # <<>> THEN 1 ELSE 0,
              !.soup = DecomposeEach(m.soup, found)]

\* lines 90-94
RemoveIframe(m) ==
    LET likes_iframe == Find(m.soup, Root, "likes") IN
    [m EXCEPT !.likes_iframe = likes_iframe,
              !.iframe_removed = IF likes_iframe # None THEN 1 ELSE 0,
              !.soup = IF likes_iframe # None THEN Decompose(m.soup, likes_iframe)
                       ELSE m.soup]

\* lines 96-104
RemoveDivs(m) ==
    LET sharedaddy_divs == SharedaddyDivs(m.soup) IN
    [m EXCEPT !.sharedaddy_divs = sharedaddy_divs,
              !.divs_removed = Len(sharedaddy_divs),
              !.soup = DecomposeEach(m.soup, sharedaddy_divs)]

\* lines 113-124: the loop over the list taken at line 108.  aside.get('id')
\* on an element that an earlier decompose() cleared raises AttributeError.
RECURSIVE AsideLoop(_, _, _)
AsideLoop(m, todo, seen_ids) ==
    IF todo = <<>> THEN m
    ELSE LET aside == todo[1] IN
         IF aside \in m.soup.decomposed THEN [m EXCEPT !.error = ClearedAttrsError]
         ELSE LET aside_id == m.soup.attrs[aside].id IN
              IF aside_id \in unwanted_ids
              THEN AsideLoop([m EXCEPT !.soup = Decompose(m.soup, aside),
                                       !.removed_asides = @ \cup {aside},
                                       !.unwanted_removed = @ + 1],
                             Tail(todo), seen_ids)
              ELSE IF aside_id \in seen_ids
              THEN AsideLoop([m EXCEPT !.soup = Decompose(m.soup, aside),
                                       !.removed_asides = @ \cup {aside},
                                       !.duplicates_removed = @ + 1],
                             Tail(todo), seen_ids)
              ELSE AsideLoop(m, Tail(todo), seen_ids \cup {aside_id})

\* lines 106-124
RemoveAsides(m) ==
    LET aside_tags == FindAll(m.soup, m.sidebar_section, "aside") IN
    AsideLoop([m EXCEPT !.aside_tags = aside_tags], aside_tags, {})

\* lines 67-124
CleanupPass(m) == RemoveAsides(RemoveDivs(RemoveIframe(RemoveScripts(m))))

\* the proper ancestors of x, following parent links at most s.n times
RECURSIVE AncestorsWithin(_, _, _)
AncestorsWithin(s, x, k) ==
    IF k = 0 \/ x = Root \/ s.parent[x] = NoParent THEN {}
    ELSE {s.parent[x]} \cup AncestorsWithin(s, s.parent[x], k - 1)

Ancestors(s, x) == AncestorsWithin(s, x, s.n)

\* lines 126-130: sidebar_section.extract(); content_section.insert_after(sidebar_section)
MoveSidebar(m, lib) ==
    LET s1 == Extract(m.soup, m.sidebar_section)
        parent == s1.parent[m.content_section]
    IN IF parent = NoParent THEN [m EXCEPT !.soup = s1, !.error = NoParentError]
       ELSE IF parent = m.sidebar_section THEN [m EXCEPT !.soup = s1, !.error = IntoItselfError]
       ELSE LET index == IndexOf(s1.contents[parent], m.content_section)
                s2 == [s1 EXCEPT !.parent[m.sidebar_section] = parent,
                                 !.contents[parent] = InsertAt(@, index + 1, m.sidebar_section)]
            IN IF m.sidebar_section \in Ancestors(s1, parent) /\ ~lib.cycle_ends
               THEN [m EXCEPT !.soup = s2, !.error = Hang]
               ELSE [m EXCEPT !.soup = s2]

\* line 132: str(soup)
Render(m, lib) ==
    IF m.sidebar_section \in m.soup.decomposed /\ ~lib.shell_renders
    THEN [m EXCEPT !.error = ClearedNameError]
    ELSE [m EXCEPT !.output = Serialize(m.soup)]

\* lines 39-132
move_sidebar_after_content(text, lib) ==
    LET m0 == FindSections(text) IN
    IF m0.error # NoError THEN m0
    ELSE LET m1 == CleanupPass(m0) IN
         IF m1.error # NoError THEN m1
         ELSE LET m2 == MoveSidebar(m1, lib) IN
              IF m2.error # NoError THEN m2 ELSE Render(m2, lib)

\* ------------------------------------------------------------- the preview pass
\* lines 186-195
RECURSIVE CountAsides(_, _, _, _)
CountAsides(s, todo, seen_ids, c) ==
    IF todo = <<>> THEN c
    ELSE LET aside_id == s.attrs[todo[1]].id IN
         IF aside_id \in unwanted_ids
         THEN CountAsides(s, Tail(todo), seen_ids, [c EXCEPT !.unwanted_count = @ + 1])
         ELSE IF aside_id \in seen_ids
         THEN CountAsides(s, Tail(todo), seen_ids, [c EXCEPT !.duplicate_count = @ + 1])
         ELSE CountAsides(s, Tail(todo), seen_ids \cup {aside_id}, c)

\* lines 153-195
PreviewCounts(text) ==
    LET soup_check == Parse(text)
        sidebar_check == Find(soup_check, Root, "sidebar")
        likes_iframe == Find(soup_check, Root, "likes")
        c0 == [duplicate_count |-> 0, unwanted_count |-> 0,
               scripts_count |-> Len(UnwantedScripts(soup_check)),
               iframe_count |-> IF likes_iframe # None THEN 1 ELSE 0,
               divs_count |-> Len(SharedaddyDivs(soup_check))]
    IN IF sidebar_check # None
       THEN CountAsides(soup_check,
                        FindAll(soup_check, sidebar_check, "aside"), {}, c0)
       ELSE c0

NoCounts == [duplicate_count |-> 0, unwanted_count |-> 0, scripts_count |-> 0,
             iframe_count |-> 0, divs_count |-> 0]

NoRun ==
    [soup |-> EmptySoup, content_section |-> None, sidebar_section |-> None,
     unwanted_scripts |-> <<>>, scripts_removed |-> 0,
     likes_iframe |-> None, iframe_removed |-> 0,
     sharedaddy_divs |-> <<>>, divs_removed |-> 0,
     aside_tags |-> <<>>, removed_asides |-> {},
     duplicates_removed |-> 0, unwanted_removed |-> 0,
     error |-> NoError, output |-> <<>>]

\* ------------------------------------------------------------- files
AbsentFile == <<[t |-> "absent", l |-> NoLabel]>>
TruncatedFile == <<>>
NoDisk == [target |-> AbsentFile, bak |-> AbsentFile]

ReadDenied == [type |-> "PermissionError", msg |-> "Permission denied"]
BadEncoding == [type |-> "UnicodeDecodeError", msg |-> "'utf-8' codec can't decode byte"]
ReadOnly == [type |-> "OSError", msg |-> "Read-only file system"]
DiskFull == [type |-> "OSError", msg |-> "No space left on device"]

\* the exception classes that are ValueError or a subclass of it
IsValueError(e) == e.type \in {"ValueError", "UnicodeDecodeError"}

\* a variant with the first except clause only, for testing the properties
CaughtValueErrorOnly(e) == IsValueError(e)

\* lines 236-239: what the two except clauses of process_single_file catch
Caught(e) == TRUE

\* a variant that reports every failure as an error, for testing the properties
FailureAlwaysError(e) == [success |-> FALSE, message |-> <<"Error", e.msg>>]

\* lines 236-239
Failure(e) == [success |-> FALSE,
               message |-> IF IsValueError(e) THEN <<"Skip", e.msg>> ELSE <<"Error", e.msg>>]

\* a variant that passes the flag as it is, for testing the properties
DryRunAsGiven(exec) == exec

\* line 318: the third argument of process_single_file
DryRun(exec) == ~exec

\* line 215
BackupRequested(b) == b

\* a variant that backs up the new text, for testing the properties
BackupOfModified(original, modified) == modified

\* line 216-217: what goes into the .bak file
BackupText(original, modified) == original

\* the state of a processed file, for the summary of the batch
Status(d, original) ==
    [target |-> IF d.target = original THEN "original"
                ELSE IF d.target = TruncatedFile THEN "truncated" ELSE "modified",
     bak |-> IF d.bak = AbsentFile THEN "absent"
             ELSE IF d.bak = original THEN "original" ELSE "other"]

\* the documents of at most m elements that hold a content and a sidebar
\* element, the other elements over the given labels
HoldsBoth(text, m, labels) ==
    \E n \in 2..m : \E shape \in Shapes(n) :
    \E c \in 1..n : \E sb \in (1..n) \ {c} : \E rest \in [1..(n - 2) -> labels] :
        LET attrs == [i \in 1..n |->
                        IF i = c THEN ContentDiv
                        ELSE IF i = sb THEN SidebarDiv
                        ELSE rest[i - (IF c < i THEN 1 ELSE 0) - (IF sb < i THEN 1 ELSE 0)]]
        IN /\ WellFormed(shape, attrs)
           /\ text = Serialize(SoupOf(shape, attrs))

VARIABLES
    html_content,   \* the text read from the file, or handed to the function
    pc,             \* where the run is
    counts,         \* the five counts of the preview pass
    m,              \* the locals of move_sidebar_after_content
    again,          \* the locals of a second call, on the first call's output
    execute,        \* --execute
    backup,         \* --backup
    idx,            \* how many of html_files have been processed
    results,        \* main's results list
    original,       \* the current file's text when the batch started
    disk,           \* the current file: the target's and the .bak's text
    done,           \* the processed files' states
    summary         \* success_count and failed, once computed

vars == <<html_content, pc, counts, m, again, execute, backup, idx, results,
          original, disk, done, summary>>

batch_vars == <<execute, backup, idx, results, original, disk, done, summary>>

NoSummary == [total |-> 0, success_count |-> 0, failed |-> 0]

\* ------------------------------------------------------------- one document
Init ==
    /\ \/ IsDocument(html_content, SmallNodes, AllLabels)
       \/ HoldsBoth(html_content, MaxNodes, CoreLabels)
       \/ HoldsBoth(html_content, RareMaxNodes, AllLabels)
    /\ pc = "preview"
    /\ counts = NoCounts
    /\ m = NoRun
    /\ again = NoRun
    /\ execute = FALSE
    /\ backup = FALSE
    /\ idx = 0
    /\ results = <<>>
    /\ original = <<>>
    /\ disk = NoDisk
    /\ done = <<>>
    /\ summary = NoSummary

Raised(mm) == IF mm.error = NoError THEN "returned"
              ELSE IF mm.error = Hang THEN "hung" ELSE "raised"

\* process_single_file lines 153-195
Preview ==
    /\ pc = "preview"
    /\ counts' = PreviewCounts(html_content)
    /\ pc' = "find"
    /\ UNCHANGED <<html_content, m, again>>
    /\ UNCHANGED batch_vars

\* move_sidebar_after_content lines 55-65
DoFindSections ==
    /\ pc = "find"
    /\ m' = FindSections(html_content)
    /\ pc' = IF m'.error = NoError THEN "cleanup" ELSE "raised"
    /\ UNCHANGED <<html_content, counts, again>>
    /\ UNCHANGED batch_vars

\* move_sidebar_after_content lines 67-124
DoCleanupPass ==
    /\ pc = "cleanup"
    /\ m' = CleanupPass(m)
    /\ pc' = IF m'.error = NoError THEN "move" ELSE "raised"
    /\ UNCHANGED <<html_content, counts, again>>
    /\ UNCHANGED batch_vars

\* move_sidebar_after_content lines 126-130
DoMoveSidebar ==
    /\ pc = "move"
    /\ \E lib \in Libs : m' = MoveSidebar(m, lib)
    /\ pc' = IF m'.error = NoError THEN "render" ELSE Raised(m')
    /\ UNCHANGED <<html_content, counts, again>>
    /\ UNCHANGED batch_vars

\* move_sidebar_after_content line 132
DoRender ==
    /\ pc = "render"
    /\ \E lib \in Libs : m' = Render(m, lib)
    /\ pc' = Raised(m')
    /\ UNCHANGED <<html_content, counts, again>>
    /\ UNCHANGED batch_vars

\* a second call of move_sidebar_after_content, on what the first returned
RunAgain ==
    /\ pc = "returned"
    /\ \E lib \in Libs : again' = move_sidebar_after_content(m.output, lib)
    /\ pc' = "again"
    /\ UNCHANGED <<html_content, counts, m>>
    /\ UNCHANGED batch_vars

Next ==
    Preview \/ DoFindSections \/ DoCleanupPass \/ DoMoveSidebar \/ DoRender \/ RunAgain

Spec == Init /\ [][Next]_vars

\* ------------------------------------------------------------- a batch of files
InitBatch ==
    /\ html_content = <<>>
    /\ pc = "loop"
    /\ counts = NoCounts
    /\ m = NoRun
    /\ again = NoRun
    /\ execute \in BOOLEAN
    /\ backup \in BOOLEAN
    /\ idx = 0
    /\ results = <<>>
    /\ original = <<>>
    /\ disk = NoDisk
    /\ done = <<>>
    /\ summary = NoSummary

\* process_single_file returns r having left the file and its .bak as d; its
\* locals are gone, and main (lines 318-320) appends r to the results
Return(r, d) ==
    /\ results' = Append(results, [file |-> idx + 1, success |-> r.success,
                                   message |-> r.message])
    /\ done' = Append(done, Status(d, original))
    /\ idx' = idx + 1
    /\ pc' = "loop"
    /\ html_content' = <<>>
    /\ counts' = NoCounts
    /\ m' = NoRun
    /\ original' = <<>>
    /\ disk' = NoDisk

\* an exception e leaves process_single_file through its except clauses, or
\* leaves main if none of them catches it
Raise(e, d) ==
    IF Caught(e) THEN Return(Failure(e), d)
    ELSE /\ pc' = "crashed"
         /\ disk' = d
         /\ UNCHANGED <<results, done, idx, html_content, counts, m, original>>

\* still inside process_single_file, at the given place, the file and its
\* .bak being d
Goto(place, d) ==
    /\ pc' = place
    /\ disk' = d
    /\ UNCHANGED <<results, done, idx, original>>

\* main lines 316-317: the next file of html_files, whatever it holds
BeginFile ==
    /\ pc = "loop"
    /\ idx < NFiles
    /\ IsDocument(original', BatchMaxNodes, BatchLabels)
    /\ disk' = [target |-> original', bak |-> AbsentFile]
    /\ pc' = "read"
    /\ UNCHANGED <<html_content, counts, m, again, execute, backup, idx, results,
                   done, summary>>

\* process_single_file line 151
ReadFile ==
    /\ pc = "read"
    /\ \/ /\ html_content' = disk.target
          /\ Goto("preview", disk)
          /\ UNCHANGED <<counts, m>>
       \/ \E e \in {ReadDenied, BadEncoding} : Raise(e, disk)
    /\ UNCHANGED <<again, execute, backup, summary>>

\* process_single_file lines 153-197: the preview pass and the call
Transform ==
    /\ pc = "preview"
    /\ counts' = PreviewCounts(html_content)
    /\ \E lib \in Libs : m' = move_sidebar_after_content(html_content, lib)
    /\ Goto(IF m'.error = Hang THEN "hung" ELSE "called", disk)
    /\ UNCHANGED <<html_content, again, execute, backup, summary>>

\* process_single_file lines 199-212 and 236-239
Report ==
    /\ pc = "called"
    /\ IF m.error # NoError THEN Raise(m.error, disk)
       ELSE IF DryRun(execute)
       THEN Return([success |-> TRUE, message |-> <<"Would modify file", "(dry-run)">>],
                   disk)
       ELSE Goto("backup", disk) /\ UNCHANGED <<html_content, counts, m>>
    /\ UNCHANGED <<again, execute, backup, summary>>

\* process_single_file lines 214-217
WriteBackup ==
    /\ pc = "backup"
    /\ IF BackupRequested(backup)
       THEN \/ /\ Goto("write", [disk EXCEPT !.bak = BackupText(html_content, m.output)])
               /\ UNCHANGED <<html_content, counts, m>>
            \/ Raise(ReadOnly, disk)
            \/ Raise(DiskFull, [disk EXCEPT !.bak = TruncatedFile])
       ELSE /\ Goto("write", disk)
            /\ UNCHANGED <<html_content, counts, m>>
    /\ UNCHANGED <<again, execute, backup, summary>>

\* process_single_file lines 219-234
WriteTarget ==
    /\ pc = "write"
    /\ \/ Return([success |-> TRUE,
                  message |-> <<"Successfully modified",
                                IF backup THEN "(backup created)" ELSE "">>],
                 [disk EXCEPT !.target = m.output])
       \/ Raise(ReadOnly, disk)
       \/ Raise(DiskFull, [disk EXCEPT !.target = TruncatedFile])
    /\ UNCHANGED <<again, execute, backup, summary>>

RECURSIVE CountSuccess(_)
CountSuccess(rs) ==
    IF rs = <<>> THEN 0
    ELSE (IF rs[1].success THEN 1 ELSE 0) + CountSuccess(Tail(rs))

\* main lines 322-349: the table and the summary line.  Line 331 raises
\* ValueError, which nothing catches, for a file given by an absolute path
\* that is not under the working directory.
Summarise ==
    /\ pc = "loop"
    /\ idx = NFiles
    /\ \E under_cwd \in BOOLEAN :
          IF under_cwd
          THEN /\ summary' = [total |-> Len(results),
                              success_count |-> CountSuccess(results),
                              failed |-> Len(results) - CountSuccess(results)]
               /\ pc' = "exit"
          ELSE /\ summary' = NoSummary
               /\ pc' = "table failed"
    /\ UNCHANGED <<html_content, counts, m, again, execute, backup, idx, results,
                   original, disk, done>>

NextBatch ==
    BeginFile \/ ReadFile \/ Transform \/ Report \/ WriteBackup \/ WriteTarget \/ Summarise

SpecBatch == InitBatch /\ [][NextBatch]_vars

\* ------------------------------------------------------------- the claims
\* the document as it was parsed, before anything was removed or moved
Input == Parse(html_content)

FirstContent == Find(Input, Root, "content")
FirstSidebar == Find(Input, Root, "sidebar")

CallEnded == pc \in {"returned", "raised", "hung", "again"}

\* the cleanup pass ran to its end and the move was attempted
MoveAttempted ==
    /\ CallEnded
    /\ m.error \notin {MissingContent, MissingSidebar, ClearedAttrsError}

SidebarFollowsContent ==
    LET s == m.soup
        p == s.parent[FirstContent]
    IN /\ p # NoParent
       /\ s.parent[FirstSidebar] = p
       /\ \E i \in 1..(Len(s.contents[p]) - 1) :
             s.contents[p][i] = FirstContent /\ s.contents[p][i + 1] = FirstSidebar

\* C1: for every document holding an element with id "content" and one with id
\* "sidebar", wherever the two lie, the call returns and leaves the first-found
\* sidebar under the parent of the first-found content, right after it.
ClaimC1 ==
    (MoveAttempted /\ FirstContent # None /\ FirstSidebar # None
        /\ FirstSidebar \notin Ancestors(Input, FirstContent))
        => (m.error = NoError /\ SidebarFollowsContent)

\* C2: applying the transformation to its own output succeeds and returns that
\* output unchanged.
ClaimC2 ==
    pc = "again" => (again.error = NoError /\ again.output = m.output)

IdOf(x) == Input.attrs[x].id

\* C3: after a successful call, each of the five preview counts is the number
\* of elements the matching rule of the transformation removed.
ClaimC3 ==
    pc = "returned" =>
        /\ counts.scripts_count = Cardinality(Range(m.unwanted_scripts))
        /\ counts.iframe_count = (IF m.likes_iframe # None THEN 1 ELSE 0)
        /\ counts.divs_count = Cardinality(Range(m.sharedaddy_divs))
        /\ counts.unwanted_count =
              Cardinality({a \in m.removed_asides : IdOf(a) \in unwanted_ids})
        /\ counts.duplicate_count =
              Cardinality({a \in m.removed_asides : IdOf(a) \notin unwanted_ids})

\* the aside pass has ended, and the sidebar has not been moved yet (the move
\* changes nothing inside the sidebar)
AsidePassEnded ==
    \/ pc = "move"
    \/ pc = "raised" /\ m.error = ClearedAttrsError

SurvivingAsides ==
    SelectSeq(Descendants(m.soup, m.sidebar_section),
              LAMBDA x : AsideWithId(m.soup.attrs[x]))

\* C4: after the aside pass, for every arrangement of asides in the sidebar
\* (nested ones too): no aside with id "search-2" or "meta-2" is left, and of
\* the asides the pass found with any other id exactly the first is left.
ClaimC4 ==
    AsidePassEnded =>
        /\ m.error = NoError
        /\ \A i \in 1..Len(SurvivingAsides) : IdOf(SurvivingAsides[i]) \notin unwanted_ids
        /\ \A i \in 1..Len(m.aside_tags) :
              IdOf(m.aside_tags[i]) \notin unwanted_ids =>
                 (m.aside_tags[i] \in Range(SurvivingAsides)
                    <=> \A j \in 1..(i - 1) : IdOf(m.aside_tags[j]) # IdOf(m.aside_tags[i]))

UnwantedPrefixes == {<<"jetpack-">>, <<"sharing-js">>, <<"comment-reply">>}

Unwanted(l) ==
    \/ /\ l.name = "script"
       /\ \/ \E p \in UnwantedPrefixes : StartsWith(l.id, p)
          \/ l.type = "speculationrules"
    \/ /\ l.name = "div"
       /\ \E i \in 1..Len(l.class) : StartsWith(l.class[i], <<"sharedaddy">>)

\* C6: the text a successful call returns holds no script whose id starts with
\* "jetpack-", "sharing-js" or "comment-reply", no script of type
\* "speculationrules" and no div with a class token starting "sharedaddy";
\* each such element of the input is gone with everything under it.
TheoremC6 ==
    pc = "returned" =>
        /\ \A i \in 1..Len(m.output) : m.output[i].t = "open" => ~Unwanted(m.output[i].l)
        /\ \A x \in 1..Input.n :
              Unwanted(Input.attrs[x]) => Range(Preorder(Input, x)) \subseteq m.soup.decomposed

WitnessC6 ==
    /\ pc = "returned"
    /\ \E x \in 1..Input.n :
          /\ Input.attrs[x] = ShareDiv
          /\ Input.contents[x] # <<>>
          /\ x \in m.soup.decomposed

InputIframes == {x \in 1..Input.n : Input.attrs[x].name = "iframe"}

FirstLikesMaster == Find(Input, Root, "likes")

FileInput == Parse(original)

FileContent == Find(FileInput, Root, "content")
FileSidebar == Find(FileInput, Root, "sidebar")

\* the call on the current file has ended
Called == pc = "called"

Untouched == [target |-> "original", bak |-> "absent"]

\* the call failed with e on an unchanged tree, and the step that follows lists
\* the file as skipped for that reason, neither it nor a .bak written
SkippedWith(e) ==
    /\ m.error = e
    /\ m.soup = FileInput
    /\ disk = [target |-> original, bak |-> AbsentFile]
    /\ results' = Append(results, [file |-> idx + 1, success |-> FALSE,
                                   message |-> <<"Skip", e.msg>>])
    /\ done' = Append(done, Untouched)

SkipsIncomplete ==
    Called =>
        /\ FileContent = None => SkippedWith(MissingContent)
        /\ (FileContent # None /\ FileSidebar = None) => SkippedWith(MissingSidebar)

\* C5: a file without an element with id "content" fails with the error that
\* names 'content'; one with "content" but no "sidebar", with the error that
\* names 'sidebar'.  Either way the parsed tree is as it was, neither the file
\* nor a .bak is written, whatever the flags, and the file is listed as skipped.
TheoremC5 == [][SkipsIncomplete]_vars

WitnessC5 ==
    /\ Called
    /\ execute /\ backup
    /\ FileContent # None /\ FileSidebar = None
    /\ m.error = MissingSidebar
    /\ idx = 1
    /\ results[1].message = <<"Skip", MissingContent.msg>>
    /\ done[1] = Untouched

\* C8: without --execute no file of the batch is changed and no .bak appears,
\* whatever the file holds and whatever --backup says.
TheoremC8 ==
    ~execute =>
        /\ disk = NoDisk \/ disk = [target |-> original, bak |-> AbsentFile]
        /\ \A i \in 1..Len(done) : done[i] = Untouched

WitnessC8 ==
    /\ ~execute /\ backup
    /\ pc = "exit"
    /\ results[1].message[1] = "Would modify file"
    /\ results[2].success

\* C9: with --execute and --backup, a file whose text is no longer the original
\* has a .bak holding the original text: the backup is written first, and a
\* failed backup leaves the target as it was.
TheoremC9 ==
    (execute /\ backup) =>
        /\ (disk # NoDisk /\ disk.target # original) => disk.bak = original
        /\ \A i \in 1..Len(done) : done[i].target # "original" => done[i].bak = "original"

WitnessC9 ==
    /\ execute /\ backup
    /\ pc = "exit"
    /\ done[1] = [target |-> "modified", bak |-> "original"]
    /\ results[2].message = <<"Error", DiskFull.msg>>
    /\ done[2] = [target |-> "original", bak |-> "other"]

\* C10: however a file fails, the batch goes on: no exception of a file leaves
\* the loop, the results list holds one entry per processed file, in order,
\* one per file once the loop is over, and the successes and failures of the
\* summary add up to the number of files.
TheoremC10 ==
    /\ pc # "crashed"
    /\ Len(results) = idx
    /\ \A i \in 1..Len(results) : results[i].file = i
    /\ pc \in {"exit", "table failed"} => Len(results) = NFiles
    /\ pc = "exit" =>
          /\ summary.total = NFiles
          /\ summary.success_count + summary.failed = NFiles
          /\ summary.success_count =
                Cardinality({i \in 1..NFiles : results[i].success})

WitnessC10 ==
    /\ pc = "exit"
    /\ results[1].message[1] = "Error"
    /\ results[NFiles].success
=============================================================================
